---------------------------- MODULE Spec2Model ----------------------------
\* Reservation service (Flask + SQLAlchemy): the three view functions of
\* reservation/views/reservations.py, the error handlers and the url map
\* of reservation/__init__.py, and the two tables of reservation/models.py.
\*
\* A create request is two steps, because other requests can run between
\* the SELECT of line 98 and the COMMIT of line 111:
\*   create_reservation_validate (lines 70-107), then
\*   create_reservation_commit or create_reservation_commit_error (109-118).
\* A create that ends before line 98 is create_reservation_abort.  The two
\* read views are one step each.
EXTENDS Integers, Sequences, FiniteSets, TLC

VARIABLES
    persons,       \* table person, in rowid order
    reservations,  \* table reservation, in rowid order
    pc,            \* per worker: "idle" or "commit" (between line 107 and 111)
    session,       \* per worker: the pending objects of its db.session
    last,          \* the request answered last, with its response
    submitted,     \* history: per 201 answered, what the request sent and read
    overlap,       \* history: has a create run inside another create's window
    failed,        \* history: has a create failed at its commit
    inbox          \* SpecV: the create request under test (body and clock)

vars == <<persons, reservations, pc, session, last, submitted, overlap, failed, inbox>>

\* ------------------------------------------------------------------ bounds
MaxReservations == 2   \* creates admitted to the commit phase (Spec)
MaxStored == 1         \* the same, in the validation specification (SpecV)
MaxTime == 2           \* instants are 0..MaxTime

Procs == {1, 2}
Instants == 0 .. MaxTime

\* ------------------------------------------------------------ JSON values
\* One record shape for every JSON value, so that any two compare.
\*   t = "absent" : the key is not in the body
\*   t = "null" | "int" (n) | "list" (n elements) | "str" (chars)
\*   t = "iso" : a string in ISO-8601 date-time form for instant n, with a
\*               UTC offset (tz) or without, with seconds written or not
JV(t, chars, n, tz, secs) ==
    [t |-> t, chars |-> chars, n |-> n, tz |-> tz, secs |-> secs]
Absent == JV("absent", <<>>, 0, FALSE, FALSE)
Null == JV("null", <<>>, 0, FALSE, FALSE)
Str(cs) == JV("str", cs, 0, FALSE, FALSE)
IntV(n) == JV("int", <<>>, n, FALSE, FALSE)
ListV(n) == JV("list", <<>>, n, FALSE, FALSE)
Iso(i, tz, secs) == JV("iso", <<>>, i, tz, secs)

\* Python truth value of a JSON value (the `val` of line 76, `body['note']`
\* of line 106).
Truthy(v) ==
    CASE v.t = "null" -> FALSE
      [] v.t = "str" -> v.chars # <<>>
      [] v.t = "iso" -> TRUE
      [] v.t = "int" -> v.n # 0
      [] v.t = "list" -> v.n # 0
      [] OTHER -> FALSE

\* request.get_json(): None (json = FALSE) or a dict.
Fields == {"name", "email", "size", "time", "note"}
fields_req == {"name", "email", "size", "time"}
MkBody(name, email, size, time, note) ==
    [json |-> TRUE, name |-> name, email |-> email, size |-> size,
     time |-> time, note |-> note]
NoJson ==
    [json |-> FALSE, name |-> Absent, email |-> Absent, size |-> Absent,
     time |-> Absent, note |-> Absent]
Field(body, f) ==
    CASE f = "name" -> body.name
      [] f = "email" -> body.email
      [] f = "size" -> body.size
      [] f = "time" -> body.time
      [] OTHER -> body.note
\* `not body`: None, or a dict without any key.
BodyFalsy(body) ==
    \/ ~body.json
    \/ \A f \in Fields : Field(body, f).t = "absent"

\* Lines 74-76: the body is truthy, every required key is in it, and every
\* required key that is in it has a truthy value.
RequiredOkPresenceOnly(body) ==
    /\ ~BodyFalsy(body)
    /\ \A f \in fields_req : Field(body, f).t # "absent"
RequiredOk(body) ==
    /\ ~BodyFalsy(body)
    /\ \A f \in fields_req : Field(body, f).t # "absent"
    /\ \A f \in fields_req : Field(body, f).t # "absent" => Truthy(Field(body, f))

\* datetime.datetime.fromisoformat (line 81): a datetime, ValueError for a
\* string in another form, TypeError for a value that is no string.
fromisoformat(v) ==
    CASE v.t = "iso" -> [exc |-> "none", instant |-> v.n, aware |-> v.tz]
      [] v.t = "str" -> [exc |-> "ValueError", instant |-> 0, aware |-> FALSE]
      [] OTHER -> [exc |-> "TypeError", instant |-> 0, aware |-> FALSE]

\* datetime.isoformat() (lines 28, 54) of a naive datetime: always with the
\* seconds, never with an offset.
isoformat(instant) == Iso(instant, FALSE, TRUE)

\* start_datetime < datetime.datetime.now() (line 85): an aware datetime
\* does not compare with the naive now() and raises TypeError.
BeforeNow(dt, now) ==
    IF dt.aware THEN "TypeError" ELSE IF dt.instant < now THEN "yes" ELSE "no"

\* int() of a JSON value (line 90).  Digits are the strings "0" .. "9".
DigitVal(c) ==
    CASE c = "0" -> 0 [] c = "1" -> 1 [] c = "2" -> 2 [] c = "3" -> 3
      [] c = "4" -> 4 [] c = "5" -> 5 [] c = "6" -> 6 [] c = "7" -> 7
      [] c = "8" -> 8 [] c = "9" -> 9 [] OTHER -> -1
RECURSIVE DigitsVal(_)
DigitsVal(cs) ==
    IF cs = <<>> THEN 0
    ELSE 10 * DigitsVal(SubSeq(cs, 1, Len(cs) - 1)) + DigitVal(cs[Len(cs)])
AllDigits(cs) == cs # <<>> /\ \A i \in 1 .. Len(cs) : DigitVal(cs[i]) >= 0
ParseInt(cs) ==
    IF AllDigits(cs) THEN [exc |-> "none", n |-> DigitsVal(cs)]
    ELSE IF cs # <<>> /\ cs[1] \in {"-", "+"} /\ AllDigits(Tail(cs))
    THEN [exc |-> "none",
          n |-> IF cs[1] = "-" THEN 0 - DigitsVal(Tail(cs)) ELSE DigitsVal(Tail(cs))]
    ELSE [exc |-> "ValueError", n |-> 0]
int(v) ==
    CASE v.t = "int" -> [exc |-> "none", n |-> v.n]
      [] v.t = "str" -> ParseInt(v.chars)
      [] v.t = "iso" -> [exc |-> "ValueError", n |-> 0]
      [] OTHER -> [exc |-> "TypeError", n |-> 0]

\* Column.ilike(pattern) (line 98): lower(column) LIKE lower(pattern), where
\* in the pattern "%" stands for any run of characters and "_" for any one.
Lower(c) ==
    CASE c = "A" -> "a" [] c = "B" -> "b" [] c = "X" -> "x" [] c = "Y" -> "y"
      [] OTHER -> c
LowerSeq(cs) == [i \in 1 .. Len(cs) |-> Lower(cs[i])]
RECURSIVE LikeMatch(_, _)
LikeMatch(value, pattern) ==
    IF pattern = <<>> THEN value = <<>>
    ELSE IF pattern[1] = "%"
    THEN \/ LikeMatch(value, Tail(pattern))
         \/ value # <<>> /\ LikeMatch(Tail(value), pattern)
    ELSE /\ value # <<>>
         /\ pattern[1] = "_" \/ pattern[1] = value[1]
         /\ LikeMatch(Tail(value), Tail(pattern))
ilike(value, pattern) == LikeMatch(LowerSeq(value), LowerSeq(pattern))

\* ------------------------------------------------------------- responses
MsgRequired == "Required field must not be null or empty. Required: name, email, size, time"
MsgDate == "Invalid date format, use: <date: YYYY-MM-DD>T<time: hh:mm>"
MsgFuture == "The reservation must be in the future."
MsgSizeFormat == "Invalid party size format, it must be a valid number."
MsgSizeMin == "Your party size must be of at least 1."
MsgCommit == "Unable to complete your transaction, try again later."
MsgRead == "Unable to complete the request. Try again later."
MsgNoSuchId == "This reservation id does not exists."
\* The descriptions werkzeug gives an error raised without one.
DefaultNotFound == "The requested URL was not found on the server."
DefaultInternal == "The server encountered an internal error and was unable to complete your request."

StatusLine(code) ==
    CASE code = 400 -> "400 Bad Request"
      [] code = 404 -> "404 Not Found"
      [] code = 405 -> "405 Method Not Allowed"
      [] OTHER -> "500 Internal Server Error"

\* str(e) of an HTTP error: "<code> <name>: <description>", here the two
\* parts <<"<code> <name>", description>>.
StrHTTPException(code, desc) == <<StatusLine(code), desc>>

\* The error handlers of create_app: the envelope, with msg = str(e).
ErrorHandler(code, desc) ==
    [status |-> code, envelope |-> TRUE, error |-> TRUE, code |-> code,
     msg |-> StrHTTPException(code, desc), data |-> <<>>]
\* make_response(jsonify(data), 200): data is the list of JSON objects sent.
Json200(data) ==
    [status |-> 200, envelope |-> FALSE, error |-> FALSE, code |-> 200,
     msg |-> <<>>, data |-> data]
\* Lines 112-116.
Created ==
    [status |-> 201, envelope |-> TRUE, error |-> FALSE, code |-> 201,
     msg |-> <<"Created">>, data |-> <<>>]
\* The description an error response carries (the text given to abort).
Description(resp) == resp.msg[Len(resp.msg)]

\* ----------------------------------------------------------------- tables
\* A version_id_col starts at 1 on INSERT.
Person(id, name, email) ==
    [id |-> id, version |-> 1, name |-> name, email |-> email]
Reservation(id, client_id, start, size, note) ==
    [id |-> id, version |-> 1, client_id |-> client_id,
     start_datetime |-> start, party_size |-> size, note |-> note]
NoPerson == [id |-> 0, version |-> 0, name |-> <<>>, email |-> <<>>]

\* Reservation.client: the Person row client_id names.
Client(res) ==
    LET idx == {i \in 1 .. Len(persons) : persons[i].id = res.client_id}
    IN IF idx = {} THEN NoPerson ELSE persons[CHOOSE i \in idx : TRUE]

\* Reservation.query.get(id): the rows whose primary key is id.
QueryGetOffByOne(id) == {i \in 1 .. Len(reservations) : reservations[i].id = id + 1}
QueryGet(id) == {i \in 1 .. Len(reservations) : reservations[i].id = id}

\* Lines 24-29.
Summary(res) ==
    [id |-> res.id, name |-> Client(res).name, size |-> res.party_size,
     time |-> isoformat(res.start_datetime)]
ListView == [i \in 1 .. Len(reservations) |-> Summary(reservations[i])]
\* Lines 49-56.
Detail(res) ==
    [id |-> res.id, name |-> Client(res).name, email |-> Client(res).email,
     size |-> res.party_size, time |-> isoformat(res.start_datetime),
     note |-> res.note]

\* Person.query.filter(name ilike, email ilike).first() (line 98): the id of
\* the first matching row in rowid order, 0 for None.
FirstMatch(name, email) ==
    LET idx == {i \in 1 .. Len(persons) :
                  /\ ilike(persons[i].name, name)
                  /\ ilike(persons[i].email, email)}
    IN IF idx = {} THEN 0
       ELSE persons[CHOOSE i \in idx : \A j \in idx : i =< j].id

\* ------------------------------------------------------------- validation
Abort(code, desc) == [ok |-> FALSE, code |-> code, desc |-> desc, start |-> 0, size |-> 0]
Valid(start, size) == [ok |-> TRUE, code |-> 0, desc |-> "", start |-> start, size |-> size]

\* Lines 70-95.  An exception no except clause names leaves the view and
\* becomes the 500 response.
Validate(body, now) ==
    IF ~RequiredOk(body) THEN Abort(400, MsgRequired)
    ELSE LET dt == fromisoformat(body.time) IN
    IF dt.exc # "none" THEN Abort(400, MsgDate)
    ELSE LET before == BeforeNow(dt, now) IN
    IF before = "TypeError" THEN Abort(500, DefaultInternal)
    ELSE IF before = "yes" THEN Abort(400, MsgFuture)
    ELSE LET party_size == int(body.size) IN
    IF party_size.exc = "ValueError" THEN Abort(400, MsgSizeFormat)
    ELSE IF party_size.exc = "TypeError" THEN Abort(500, DefaultInternal)
    ELSE IF party_size.n < 1 THEN Abort(400, MsgSizeMin)
    ELSE Valid(dt.instant, party_size.n)

\* Line 106.
NoteOf(body) ==
    IF body.note.t # "absent" /\ Truthy(body.note) THEN body.note.chars ELSE <<>>

\* --------------------------------------------------------------- requests
\* The record kept of the request answered last.
\*   op    : "none", "list", "get", "create", "app_get"
\*   at    : for a create, where it ended: "validate", "lookup", "commit"
\*   store : "ok", or "error" when the store raised SQLAlchemyError
\*   rid   : for a 201, the id of the row the request stored
Last(op, at, store, body, now, id, path, resp, rid) ==
    [op |-> op, at |-> at, store |-> store, body |-> body, now |-> now,
     id |-> id, path |-> path, resp |-> resp, rid |-> rid]

\* The rules in the url map of the app create_app returns: /version alone
\* (the blueprint of views/reservations.py is not registered, line 38).
UrlMap == {<<"GET", "/version">>}
Paths == {"/version", "/reservations", "/invalidurl"}
VersionBody == <<[service |-> "reservation", version |-> "0.0.1"]>>

\* A pending Reservation of a session, with the Person it links: client is
\* the id of the row line 98 found, or 0 for the new Person of line 100.
\* body and now are kept for the record of the request.
Pending(body, now, client, start, size) ==
    [body |-> body, now |-> now, client |-> client,
     name |-> body.name.chars, email |-> body.email.chars,
     start_datetime |-> start, party_size |-> size, note |-> NoteOf(body)]

\* session.commit() on success: every pending object is INSERTed, a new
\* Person before the Reservation that links it (cascade of the relationship,
\* models.py line 25).  The result is the two tables after the flush.
RECURSIVE FlushNoCascade(_, _, _)
FlushNoCascade(objs, ps, rs) ==
    IF objs = <<>> THEN [persons |-> ps, reservations |-> rs]
    ELSE LET o == Head(objs)
             cid == IF o.client = 0 THEN Len(ps) + 1 ELSE o.client
         IN FlushNoCascade(Tail(objs), ps,
                Append(rs, Reservation(Len(rs) + 1, cid, o.start_datetime,
                                          o.party_size, o.note)))
RECURSIVE FlushFindOrCreate(_, _, _)
FlushFindOrCreate(objs, ps, rs) ==
    IF objs = <<>> THEN [persons |-> ps, reservations |-> rs]
    ELSE LET o == Head(objs)
             same == {i \in 1 .. Len(ps) : ps[i].name = o.name /\ ps[i].email = o.email}
             fresh == o.client = 0 /\ same = {}
             ps2 == IF fresh
                    THEN Append(ps, Person(Len(ps) + 1, o.name, o.email))
                    ELSE ps
             cid == IF fresh THEN Len(ps) + 1
                    ELSE IF o.client = 0 THEN ps[CHOOSE i \in same : TRUE].id
                    ELSE o.client
         IN FlushFindOrCreate(Tail(objs), ps2,
                Append(rs, Reservation(Len(rs) + 1, cid, o.start_datetime,
                                          o.party_size, o.note)))
RECURSIVE Flush(_, _, _)
Flush(objs, ps, rs) ==
    IF objs = <<>> THEN [persons |-> ps, reservations |-> rs]
    ELSE LET o == Head(objs)
             ps2 == IF o.client = 0
                    THEN Append(ps, Person(Len(ps) + 1, o.name, o.email))
                    ELSE ps
             cid == IF o.client = 0 THEN Len(ps) + 1 ELSE o.client
         IN Flush(Tail(objs), ps2,
                Append(rs, Reservation(Len(rs) + 1, cid, o.start_datetime,
                                          o.party_size, o.note)))

InFlight == Cardinality({q \in Procs : pc[q] = "commit"})

NoRequest == [body |-> NoJson, now |-> 0]

InitStore ==
    /\ persons = <<>>
    /\ reservations = <<>>
    /\ pc = [p \in Procs |-> "idle"]
    /\ session = [p \in Procs |-> <<>>]
    /\ last = Last("none", "", "ok", NoJson, 0, 0, "", Json200(<<>>), 0)
    /\ submitted = <<>>
    /\ overlap = FALSE
    /\ failed = FALSE

Init == InitStore /\ inbox = NoRequest

\* GET /reservations, lines 19-31.
get_all_reservations ==
    /\ last' = Last("list", "", "ok", NoJson, 0, 0, "", Json200(ListView), 0)
    /\ UNCHANGED <<persons, reservations, pc, session, submitted, overlap, failed, inbox>>

\* GET /reservations when the query raises, lines 21-22.
get_all_reservations_error ==
    /\ last' = Last("list", "", "error", NoJson, 0, 0, "", ErrorHandler(500, MsgRead), 0)
    /\ UNCHANGED <<persons, reservations, pc, session, submitted, overlap, failed, inbox>>

\* GET /reservations/<int:reservation_id>, lines 34-58.  The int converter
\* of the rule matches digits only: a negative id is no route of the app.
get_reservation_by_id(id) ==
    /\ last' = Last("get", "", "ok", NoJson, 0, id, "",
                    IF id < 0 THEN ErrorHandler(404, DefaultNotFound)
                    ELSE IF QueryGet(id) = {} THEN ErrorHandler(404, MsgNoSuchId)
                    ELSE Json200(<<Detail(reservations[CHOOSE i \in QueryGet(id) : TRUE])>>),
                    0)
    /\ UNCHANGED <<persons, reservations, pc, session, submitted, overlap, failed, inbox>>

\* GET /reservations/<id> when the query raises, lines 43-44.
get_reservation_by_id_error(id) ==
    /\ id >= 0
    /\ last' = Last("get", "", "error", NoJson, 0, id, "", ErrorHandler(500, MsgRead), 0)
    /\ UNCHANGED <<persons, reservations, pc, session, submitted, overlap, failed, inbox>>

\* A GET through the app create_app returns (the app the tests build):
\* a path with no rule in its url map is answered by the 404 handler.
AppGet(path) ==
    /\ last' = Last("app_get", "", "ok", NoJson, 0, 0, path,
                    IF <<"GET", path>> \notin UrlMap THEN ErrorHandler(404, DefaultNotFound)
                    ELSE IF path = "/version" THEN Json200(VersionBody)
                    ELSE Json200(ListView),
                    0)
    /\ UNCHANGED <<persons, reservations, pc, session, submitted, overlap, failed, inbox>>

\* POST /reservations, lines 70-107, for a request that ends there: a
\* validation that aborts, or an exception no except clause names.
create_reservation_abort(p, body, now) ==
    /\ pc[p] = "idle"
    /\ ~Validate(body, now).ok
    /\ last' = Last("create", "validate", "ok", body, now, 0, "",
                    ErrorHandler(Validate(body, now).code, Validate(body, now).desc), 0)
    /\ UNCHANGED <<persons, reservations, pc, session, submitted, overlap, failed, inbox>>

\* POST /reservations, lines 70-107, for a request that passes validation:
\* the Person is looked up or constructed and the Reservation constructed.
\* cap bounds the creates admitted to the commit phase.
create_reservation_validate(p, body, now, cap) ==
    /\ pc[p] = "idle"
    /\ Validate(body, now).ok
    /\ Len(reservations) + InFlight < cap
    /\ session' = [session EXCEPT ![p] =
            Append(@, Pending(body, now,
                              FirstMatch(body.name.chars, body.email.chars),
                              Validate(body, now).start, Validate(body, now).size))]
    /\ pc' = [pc EXCEPT ![p] = "commit"]
    /\ overlap' = (overlap \/ InFlight > 0)
    /\ UNCHANGED <<persons, reservations, last, submitted, failed, inbox>>

\* POST /reservations when the query of line 98 raises: no except clause
\* is around it.
create_reservation_lookup_error(p, body, now) ==
    /\ pc[p] = "idle"
    /\ Validate(body, now).ok
    /\ last' = Last("create", "lookup", "error", body, now, 0, "",
                    ErrorHandler(500, DefaultInternal), 0)
    /\ UNCHANGED <<persons, reservations, pc, session, submitted, overlap, failed, inbox>>

\* Lines 110-116: the commit succeeds.
create_reservation_commit(p) ==
    /\ pc[p] = "commit"
    /\ LET after == Flush(session[p], persons, reservations)
           o == session[p][Len(session[p])]
       IN /\ persons' = after.persons
          /\ reservations' = after.reservations
          /\ submitted' = Append(submitted,
                [name |-> o.name, email |-> o.email, found |-> o.client,
                 start_datetime |-> o.start_datetime, party_size |-> o.party_size,
                 note |-> o.note])
          /\ last' = Last("create", "commit", "ok", o.body, o.now, 0, "", Created,
                          Len(after.reservations))
    /\ session' = [session EXCEPT ![p] = <<>>]
    /\ pc' = [pc EXCEPT ![p] = "idle"]
    /\ UNCHANGED <<overlap, failed, inbox>>

\* Lines 117-118: the commit raises SQLAlchemyError.  Nothing was written,
\* and the session of the request is removed with its pending objects when
\* the request ends (the scoped session of db, models.py line 5).
create_reservation_commit_error_keeps_pending(p) ==
    /\ pc[p] = "commit"
    /\ last' = Last("create", "commit", "error", session[p][Len(session[p])].body,
                    session[p][Len(session[p])].now, 0, "",
                    ErrorHandler(500, MsgCommit), 0)
    /\ pc' = [pc EXCEPT ![p] = "idle"]
    /\ failed' = TRUE
    /\ UNCHANGED <<persons, reservations, session, submitted, overlap, inbox>>
create_reservation_commit_error(p) ==
    /\ pc[p] = "commit"
    /\ last' = Last("create", "commit", "error", session[p][Len(session[p])].body,
                    session[p][Len(session[p])].now, 0, "",
                    ErrorHandler(500, MsgCommit), 0)
    /\ session' = [session EXCEPT ![p] = <<>>]
    /\ pc' = [pc EXCEPT ![p] = "idle"]
    /\ failed' = TRUE
    /\ UNCHANGED <<persons, reservations, submitted, overlap, inbox>>

\* ----------------------------------------------------------------- inputs
\* Spec: creates that differ in name (by case, by a LIKE wildcard) or in
\* email, one of them for the instant the clock reads, and two that are
\* rejected.  The clock reads 0.
Bodies ==
    {MkBody(Str(<<"a">>), Str(<<"x">>), IntV(1), Iso(MaxTime, FALSE, TRUE), Absent),
     MkBody(Str(<<"A">>), Str(<<"x">>), Str(<<"2">>), Iso(MaxTime, FALSE, FALSE), Str(<<"n">>)),
     MkBody(Str(<<"_">>), Str(<<"x">>), IntV(1), Iso(0, FALSE, TRUE), Str(<<>>)),
     MkBody(Str(<<"a">>), Str(<<"y">>), IntV(2), Iso(MaxTime, FALSE, TRUE), Absent),
     NoJson,
     MkBody(Str(<<"a">>), Str(<<"x">>), ListV(1), Iso(MaxTime, FALSE, TRUE), Absent)}
Nows == {0}
GetIds == -1 .. Len(reservations) + 1

Next ==
    \/ get_all_reservations
    \/ get_all_reservations_error
    \/ \E id \in GetIds : get_reservation_by_id(id)
    \/ \E id \in GetIds : get_reservation_by_id_error(id)
    \/ \E path \in Paths : AppGet(path)
    \/ \E p \in Procs, body \in Bodies, now \in Nows : create_reservation_abort(p, body, now)
    \/ \E p \in Procs, body \in Bodies, now \in Nows :
            create_reservation_validate(p, body, now, MaxReservations)
    \/ \E p \in Procs, body \in Bodies, now \in Nows : create_reservation_lookup_error(p, body, now)
    \/ \E p \in Procs : create_reservation_commit(p)
    \/ \E p \in Procs : create_reservation_commit_error(p)

Spec == Init /\ [][Next]_vars

\* SpecV: one create request, drawn from every combination of field values
\* and clock readings, served (and served again) against the store.
NameVals == {Absent, Null, Str(<<>>), Str(<<"a">>), Str(<<"A">>)}
EmailVals == {Absent, Null, Str(<<>>), Str(<<"x">>)}
SizeVals ==
    {Absent, Null, Str(<<>>), IntV(0), IntV(-1), IntV(1), IntV(2),
     Str(<<"2">>), Str(<<"-", "1">>), Str(<<"x">>), ListV(0), ListV(1)}
TimeVals ==
    {Absent, Null, Str(<<>>), Str(<<"x">>), IntV(1)}
    \cup {Iso(t, tz, secs) : t \in Instants, tz \in BOOLEAN, secs \in BOOLEAN}
NoteVals == {Absent, Str(<<>>), Str(<<"n">>)}
AllBodies ==
    {MkBody(n, e, s, t, o) :
        n \in NameVals, e \in EmailVals, s \in SizeVals, t \in TimeVals, o \in NoteVals}
    \cup {NoJson}

InitV == InitStore /\ inbox \in [body : AllBodies, now : Instants]

NextV ==
    \/ get_all_reservations
    \/ \E id \in GetIds : get_reservation_by_id(id)
    \/ \E p \in Procs : create_reservation_abort(p, inbox.body, inbox.now)
    \/ \E p \in Procs : create_reservation_validate(p, inbox.body, inbox.now, MaxStored)
    \/ \E p \in Procs : create_reservation_lookup_error(p, inbox.body, inbox.now)
    \/ \E p \in Procs : create_reservation_commit(p)
    \/ \E p \in Procs : create_reservation_commit_error(p)

SpecV == InitV /\ [][NextV]_vars

\* ================================================================== claims
PersonOf(res) == {j \in 1 .. Len(persons) : persons[j].id = res.client_id}
ErrorEnvelope(resp, code) ==
    resp.status = code /\ resp.envelope /\ resp.error /\ resp.code = code
IsCreate == last.op = "create"

\* The payloads C1 is about: name and email non-empty strings, size an
\* integer >= 1, time an ISO-8601 date-time after the clock reading.
ValidPayload(body, now) ==
    /\ body.json
    /\ body.name.t = "str" /\ body.name.chars # <<>>
    /\ body.email.t = "str" /\ body.email.chars # <<>>
    /\ body.size.t = "int" /\ body.size.n >= 1
    /\ body.time.t = "iso" /\ body.time.n > now

\* C1: a create with a valid payload (the store answering) returns 201 with
\* {error: false, msg: "Created", code: 201}, and the GET of the stored
\* reservation returns the submitted name, email, size, time (the same
\* instant) and note ("" when absent or empty).
C1_CreateThenGet ==
    (IsCreate /\ last.store = "ok" /\ ValidPayload(last.body, last.now)) =>
        /\ last.resp = Created
        /\ \E i \in QueryGet(last.rid) :
             LET d == Detail(reservations[i]) IN
             /\ d.name = last.body.name.chars
             /\ d.email = last.body.email.chars
             /\ d.size = last.body.size.n
             /\ fromisoformat(d.time).instant = last.body.time.n
             /\ d.note = IF last.body.note.t = "str" THEN last.body.note.chars ELSE <<>>

\* C2: on the app create_app builds, GET /reservations returns 200 with one
\* summary {id, name, size, time} per stored reservation, in insertion
\* order, the first with id 1.
C2_AppListsReservations ==
    (last.op = "app_get" /\ last.path = "/reservations") =>
        /\ last.resp.status = 200
        /\ Len(last.resp.data) = Len(reservations)
        /\ \A i \in 1 .. Len(reservations) :
             \E j \in PersonOf(reservations[i]) :
                last.resp.data[i] =
                    [id |-> i, name |-> persons[j].name,
                     size |-> reservations[i].party_size,
                     time |-> Iso(reservations[i].start_datetime, FALSE, TRUE)]

\* C3: a create whose required fields are there and whose time is an ISO
\* date-time equal to or before the clock reading returns 400 with "The
\* reservation must be in the future." and stores nothing.
C3_PastTimeRejected ==
    (/\ IsCreate /\ last.store = "ok"
     /\ RequiredOk(last.body)
     /\ last.body.time.t = "iso"
     /\ last.body.time.n =< last.now) =>
        /\ last.resp.status = 400
        /\ Description(last.resp) = MsgFuture
        /\ last.rid = 0

\* C4: a create that passes the required-field and time checks and whose
\* size is no integer, or an integer < 1, returns 400; and every stored
\* reservation has party_size >= 1.
C4_BadSizeRejected ==
    /\ (/\ IsCreate /\ last.store = "ok"
        /\ RequiredOk(last.body)
        /\ fromisoformat(last.body.time).exc = "none"
        /\ BeforeNow(fromisoformat(last.body.time), last.now) = "no"
        /\ int(last.body.size).exc # "none" \/ int(last.body.size).n < 1) =>
            last.resp.status = 400
    /\ \A i \in 1 .. Len(reservations) : reservations[i].party_size >= 1

MissingNullOrEmpty(v) ==
    \/ v.t \in {"absent", "null"}
    \/ v.t = "str" /\ v.chars = <<>>
    \/ v.t = "list" /\ v.n = 0

SameIgnoringCase(a, b) ==
    LowerSeq(a.name) = LowerSeq(b.name) /\ LowerSeq(a.email) = LowerSeq(b.email)

\* C6: after creates that did not overlap, two reservations reference the
\* same Person exactly when their submitted name and email are equal
\* ignoring case.
C6_PersonReuse ==
    (~overlap /\ Len(submitted) = Len(reservations)) =>
        \A i, j \in 1 .. Len(reservations) :
            SameIgnoringCase(submitted[i], submitted[j])
                <=> reservations[i].client_id = reservations[j].client_id

\* C7: a create that fails at its commit returns the 500 envelope with
\* "Unable to complete your transaction, try again later."; the stored
\* reservations are exactly those of the creates answered 201, every Person
\* row belongs to one of them, and no request leaves pending objects behind
\* for a later commit.
C7_CommitFailureRollsBack ==
    /\ (IsCreate /\ last.at = "commit" /\ last.store = "error") =>
            /\ ErrorEnvelope(last.resp, 500)
            /\ Description(last.resp) = MsgCommit
            /\ last.rid = 0
    /\ Len(reservations) = Len(submitted)
    /\ \A i \in 1 .. Len(reservations) :
            /\ i <= Len(submitted)
            /\ reservations[i].start_datetime = submitted[i].start_datetime
            /\ reservations[i].party_size = submitted[i].party_size
            /\ reservations[i].note = submitted[i].note
            /\ \E j \in PersonOf(reservations[i]) :
                  IF submitted[i].found = 0
                  THEN /\ persons[j].name = submitted[i].name
                       /\ persons[j].email = submitted[i].email
                  ELSE persons[j].id = submitted[i].found
    /\ \A j \in 1 .. Len(persons) :
            \E i \in 1 .. Len(reservations) : reservations[i].client_id = persons[j].id
    /\ \A p \in Procs : pc[p] = "idle" => session[p] = <<>>
\* A create answered 201 after another create failed at its commit.
C7_Witness ==
    /\ failed
    /\ IsCreate /\ last.resp = Created
    /\ Len(reservations) >= 1

\* C8 as stated: GET /reservations/{id} for an integer id with no row
\* returns 404 with {error: true, code: 404, msg: "This reservation id does
\* not exists."}, and for a stored id 200 with that reservation's details.
DetailsOf(i) ==
    \E j \in PersonOf(reservations[i]) :
        last.resp.data =
            <<[id |-> reservations[i].id, name |-> persons[j].name,
               email |-> persons[j].email, size |-> reservations[i].party_size,
               time |-> Iso(reservations[i].start_datetime, FALSE, TRUE),
               note |-> reservations[i].note]>>
StoredIndex(id) == {i \in 1 .. Len(reservations) : reservations[i].id = id}
C8_GetById_AsStated ==
    (last.op = "get" /\ last.store = "ok") =>
        IF StoredIndex(last.id) = {}
        THEN /\ ErrorEnvelope(last.resp, 404)
             /\ last.resp.msg = <<MsgNoSuchId>>
        ELSE /\ last.resp.status = 200
             /\ \A i \in StoredIndex(last.id) : DetailsOf(i)
\* C8 amended: the msg of the 404 envelope is str() of the error, the status
\* line followed by the description; the description is "This reservation
\* id does not exists." for an id >= 0 and the framework's for a negative
\* id, which matches no route.
C8_GetById ==
    (last.op = "get" /\ last.store = "ok") =>
        IF StoredIndex(last.id) = {}
        THEN /\ ErrorEnvelope(last.resp, 404)
             /\ last.resp.msg =
                    <<"404 Not Found",
                      IF last.id >= 0 THEN MsgNoSuchId ELSE DefaultNotFound>>
        ELSE /\ last.resp.status = 200
             /\ \A i \in StoredIndex(last.id) : DetailsOf(i)
\* A GET of the id after the last stored one, answered 404.
C8_Witness ==
    /\ last.op = "get" /\ last.store = "ok"
    /\ Len(reservations) >= 1
    /\ last.id = Len(reservations) + 1
    /\ last.resp.status = 404

ForeignKey ==
    \A i \in 1 .. Len(reservations) : PersonOf(reservations[i]) # {}
RowsKept ==
    /\ Len(persons') >= Len(persons)
    /\ \A j \in 1 .. Len(persons) : persons'[j] = persons[j]
    /\ Len(reservations') >= Len(reservations)
    /\ \A i \in 1 .. Len(reservations) : reservations'[i] = reservations[i]

\* C9: in every reachable state every reservation's client_id names a
\* Person row, and no step updates or deletes a row of either table.
C9_ReferentialIntegrity == [](ForeignKey) /\ [][RowsKept]_vars
\* Rows stored by overlapping creates, after a commit failure, with a
\* rejected create answered last.
C9_Witness ==
    /\ Len(reservations) >= 2 /\ Len(persons) >= 1
    /\ overlap /\ failed
    /\ IsCreate /\ last.resp.status = 400

\* C10: every create answered 201 whose lookup found no Person stored a
\* Person row of its own: two such creates, which overlapped if their name
\* and email are the same, leave two distinct Person rows.
C10_RaceDuplicatesPerson ==
    Len(submitted) = Len(reservations) =>
        \A i, j \in 1 .. Len(reservations) :
            (i < j /\ submitted[i].found = 0 /\ submitted[j].found = 0) =>
                /\ reservations[i].client_id # reservations[j].client_id
                /\ \E k \in PersonOf(reservations[i]) :
                      persons[k].name = submitted[i].name
                      /\ persons[k].email = submitted[i].email
                /\ \E k \in PersonOf(reservations[j]) :
                      persons[k].name = submitted[j].name
                      /\ persons[k].email = submitted[j].email
\* Two creates with the same name and email, both having read no match,
\* both answered 201: two Person rows with that name and email.
C10_Witness ==
    /\ overlap
    /\ Len(submitted) = 2 /\ Len(reservations) = 2 /\ Len(persons) = 2
    /\ submitted[1].found = 0 /\ submitted[2].found = 0
    /\ submitted[1].name = submitted[2].name
    /\ submitted[1].email = submitted[2].email
    /\ persons[1].name = persons[2].name /\ persons[1].email = persons[2].email
    /\ persons[1].id # persons[2].id
    /\ reservations[1].client_id # reservations[2].client_id
    /\ last.resp = Created

=============================================================================
